---- MODULE Spec2Model ----
(***************************************************************************)
(* Model of gpt_plan.py: the journal parser, the lookback, the phase       *)
(* calendar, the metrics of the main flow and the journal writer.          *)
(*                                                                         *)
(* Text is a sequence of characters; a character is a one-element string.  *)
(* The CJK characters of the source are written as bracketed pinyin names  *)
(* ("<yu>" is U+9884 and so on), one token per character.                  *)
(* Hours are held in tenths of an hour (2.0 h is 20): the journals drawn   *)
(* here carry at most one fractional digit, so sums are exact.             *)
(* A ratio is a pair <<numerator, denominator>>.                           *)
(***************************************************************************)
EXTENDS Integers, Sequences, FiniteSets, TLC

VARIABLES
    pc,          \* position of the operation sequence being run
    err,         \* the exception the operation raised, or "none"
    today,       \* dt.date.today(), a day ordinal of 2025 (1 = 2025-01-01)
    max_lookback,\* find_latest_log's window
    journals,    \* the files of JOURNALS: [date -> File(text) or NoFile]
    yest_date,   \* find_latest_log's date
    done_y,      \* done records
    todo_y,      \* todo records
    phase_code,  \* get_current_phase's code
    phase_desc,  \* get_current_phase's description
    time_rate,   \* get_time_progress's ratio
    metrics,     \* total_est, total_spent, efficiency, task_rate of the main flow
    today_text,  \* the plan text handed to append_to_logseq
    clock        \* dt.datetime.now() as "%H:%M" characters

vars == <<pc, err, today, max_lookback, journals, yest_date, done_y, todo_y,
          phase_code, phase_desc, time_rate, metrics, today_text, clock>>

\* a journal file that does not exist, and one that holds text
NoFile == [exists |-> FALSE, text |-> <<>>]
File(text) == [exists |-> TRUE, text |-> text]

\* None is the empty tuple and a date d is <<d>>
None == <<>>

\* a failed re match
NoMatch == [ok |-> FALSE, start |-> 0, stop |-> 0, group |-> <<>>]

(***************************************************************************)
(* Characters and strings                                                  *)
(***************************************************************************)
Digit == {"0", "1", "2", "3", "4", "5", "6", "7", "8", "9"}

DigitVal(c) ==
    CASE c = "0" -> 0 [] c = "1" -> 1 [] c = "2" -> 2 [] c = "3" -> 3
      [] c = "4" -> 4 [] c = "5" -> 5 [] c = "6" -> 6 [] c = "7" -> 7
      [] c = "8" -> 8 [] c = "9" -> 9

\* \s of the re module and the characters str.strip() removes
Whitespace == {" ", "\t", "\n"}

\* the class [0-9\.] of the three annotation patterns
NumClass == Digit \cup {"."}

RECURSIVE SkipWhile(_, _, _)
\* the first index >= i of s whose character is outside S (Len(s)+1 if none):
\* where a greedy S* that started at i stops
SkipWhile(s, i, S) ==
    IF i > Len(s) \/ s[i] \notin S THEN i ELSE SkipWhile(s, i + 1, S)

RECURSIVE SkipBack(_, _, _)
\* the last index <= i of s whose character is outside S (0 if none)
SkipBack(s, i, S) ==
    IF i < 1 \/ s[i] \notin S THEN i ELSE SkipBack(s, i - 1, S)

SliceOrEmpty(s, a, b) == IF a > b THEN <<>> ELSE SubSeq(s, a, b)

\* str.strip()
Strip(s) ==
    SliceOrEmpty(s, SkipWhile(s, 1, Whitespace), SkipBack(s, Len(s), Whitespace))

HasPrefixAt(s, i, p) ==
    /\ i + Len(p) - 1 <= Len(s)
    /\ SubSeq(s, i, i + Len(p) - 1) = p

RECURSIVE FindBreak(_, _)
\* the first index >= i of s that holds a line break (Len(s)+1 if none)
FindBreak(s, i) ==
    IF i > Len(s) \/ s[i] = "\n" THEN i ELSE FindBreak(s, i + 1)

RECURSIVE SplitFrom(_, _)
SplitFrom(s, i) ==
    IF i > Len(s) THEN <<>>
    ELSE LET j == FindBreak(s, i)
         IN  <<SubSeq(s, i, j - 1)>> \o SplitFrom(s, j + 1)

\* the lines of s without their line breaks; a text that ends in a line break
\* has no empty last line. It is str.splitlines() and, up to the line breaks
\* that strip() removes, the iteration over an open text file.
SplitLines(s) == SplitFrom(s, 1)

RECURSIVE Concat(_)
Concat(ss) == IF ss = <<>> THEN <<>> ELSE Head(ss) \o Concat(Tail(ss))

RECURSIVE Join(_, _)
\* sep.join(ss)
Join(sep, ss) ==
    IF ss = <<>> THEN <<>>
    ELSE IF Len(ss) = 1 THEN ss[1]
    ELSE ss[1] \o sep \o Join(sep, Tail(ss))

(***************************************************************************)
(* The patterns of lines 22-25                                             *)
(***************************************************************************)
sTODO == <<"T", "O", "D", "O">>
sDONE == <<"D", "O", "N", "E">>

\* an annotation pattern  open \s* ([0-9\.]+) close
EST_RE   == [open |-> <<"(", "<yu>", "<ji>">>,           close |-> <<"h", ")">>]
DUR_DONE == [open |-> <<"[", "<hao>", "<shi>">>,         close |-> <<"h", "]">>]
DUR_TODO == [open |-> <<"[", "<yi>", "<hao>", "<shi>">>, close |-> <<"h", "]">>]

\* the match of open \s* ([0-9\.]+) close, given where the whitespace ends (a)
\* and where the number ends (b)
MatchOf(re, s, i, a, b) ==
    IF b > a /\ HasPrefixAt(s, b, re.close)
    THEN [ok |-> TRUE, start |-> i, stop |-> b + Len(re.close) - 1,
          group |-> SubSeq(s, a, b - 1)]
    ELSE NoMatch

NumberFrom(re, s, i, a) == MatchOf(re, s, i, a, SkipWhile(s, a, NumClass))

\* the match of an annotation pattern that starts at index i of s, or NoMatch.
\* Whitespace, the number class and "h" are disjoint, so the greedy match is
\* the only one.
MatchAt(re, s, i) ==
    IF ~HasPrefixAt(s, i, re.open) THEN NoMatch
    ELSE NumberFrom(re, s, i, SkipWhile(s, i + Len(re.open), Whitespace))

RECURSIVE SearchFrom(_, _, _)
SearchFrom(re, s, i) ==
    IF i > Len(s) THEN NoMatch
    ELSE IF HasPrefixAt(s, i, re.open) /\ MatchAt(re, s, i).ok THEN MatchAt(re, s, i)
    ELSE SearchFrom(re, s, i + 1)

\* re.search: the leftmost match
Search(re, s) == SearchFrom(re, s, 1)

RECURSIVE SubFrom(_, _, _)
SubFrom(re, s, i) ==
    IF i > Len(s) THEN <<>>
    ELSE IF HasPrefixAt(s, i, re.open) /\ MatchAt(re, s, i).ok
    THEN SubFrom(re, s, MatchAt(re, s, i).stop + 1)
    ELSE <<s[i]>> \o SubFrom(re, s, i + 1)

\* re.sub("", s): every non-overlapping match removed, left to right
Sub(re, s) == SubFrom(re, s, 1)

NoTask == [ok |-> FALSE, st |-> <<>>, txt |-> <<>>]

\* the groups of ^- (TODO|DONE)\s+(.*)$ when \s+ ends before index b
TaskGroups(s, b) ==
    IF b > 7 /\ \A k \in b..Len(s) : s[k] # "\n"
    THEN [ok |-> TRUE, st |-> SubSeq(s, 3, 6), txt |-> SubSeq(s, b, Len(s))]
    ELSE NoTask

\* TASK_RE.match on a stripped line: the groups (st, txt) of
\* ^- (TODO|DONE)\s+(.*)$
TASK_RE(s) ==
    IF ~HasPrefixAt(s, 1, <<"-", " ">>) THEN NoTask
    ELSE IF ~(HasPrefixAt(s, 3, sTODO) \/ HasPrefixAt(s, 3, sDONE)) THEN NoTask
    ELSE TaskGroups(s, SkipWhile(s, 7, Whitespace))

RECURSIVE DigitsValue(_)
DigitsValue(ds) ==
    IF ds = <<>> THEN 0 ELSE 10 * DigitsValue(SubSeq(ds, 1, Len(ds) - 1)) + DigitVal(ds[Len(ds)])

\* the value in tenths of digits with one point at index d; the numbers of the
\* journals drawn have at most one digit behind the point
DecimalValue(g, d) ==
    10 * DigitsValue(SubSeq(g, 1, d - 1)) + (IF d < Len(g) THEN DigitVal(g[d + 1]) ELSE 0)

FloatOf(g, dots) ==
    IF Cardinality(dots) > 1 \/ Cardinality(dots) = Len(g)
    THEN [ok |-> FALSE, val |-> 0]
    ELSE IF dots = {} THEN [ok |-> TRUE, val |-> 10 * DigitsValue(g)]
    ELSE [ok |-> TRUE, val |-> DecimalValue(g, CHOOSE k \in dots : TRUE)]

\* float() of a string of the class [0-9\.]+, in tenths; it raises ValueError
\* (ok = FALSE) unless the string has a digit and at most one point
PyFloat(g) == FloatOf(g, {k \in 1..Len(g) : g[k] = "."})

(***************************************************************************)
(* parse_tasks_for_date, lines 58-82                                       *)
(***************************************************************************)
DEFAULT_EST == 20

DEFAULT_SPENT == 0

Skip == [kind |-> "skip", text |-> <<>>, est |-> 0, actual |-> 0]
Raise == [kind |-> "ValueError", text |-> <<>>, est |-> 0, actual |-> 0]

\* an annotation of a task text: whether the pattern matched, and float() of
\* its group
Note(m) == [present |-> m.ok, float |-> PyFloat(m.group)]

\* lines 72 and 78: the pattern of the time a task of the status took
DurPattern(st) == IF st = sDONE THEN DUR_DONE ELSE DUR_TODO

\* lines 69-81 with the duration of line 73 defaulting to 2.0, not to est
TaskRecord_dur_defaults_to_2h(st, txt, e, d) ==
    IF (e.present /\ ~e.float.ok) \/ (d.present /\ ~d.float.ok) THEN Raise
    ELSE [kind |-> IF st = sDONE THEN "DONE" ELSE "TODO",
          text |-> Strip(Sub(DurPattern(st), Sub(EST_RE, txt))),
          est |-> IF e.present THEN e.float.val ELSE DEFAULT_EST,
          actual |-> IF d.present THEN d.float.val
                     ELSE IF st = sDONE THEN DEFAULT_EST
                     ELSE DEFAULT_SPENT]

\* lines 69-81: the record of a task of status st and text txt whose estimate
\* annotation is e and whose duration (DONE) or spent (TODO) annotation is d;
\* float() raises on an annotation that matched and is no number
TaskRecord(st, txt, e, d) ==
    IF (e.present /\ ~e.float.ok) \/ (d.present /\ ~d.float.ok) THEN Raise
    ELSE [kind |-> IF st = sDONE THEN "DONE" ELSE "TODO",
          text |-> Strip(Sub(DurPattern(st), Sub(EST_RE, txt))),
          est |-> IF e.present THEN e.float.val ELSE DEFAULT_EST,
          actual |-> IF d.present THEN d.float.val
                     ELSE IF st = sDONE
                     THEN (IF e.present THEN e.float.val ELSE DEFAULT_EST)
                     ELSE DEFAULT_SPENT]

\* lines 66-81 on the groups of a line that TASK_RE matched
ParseTask(m) ==
    IF ~m.ok THEN Skip
    ELSE TaskRecord(m.st, m.txt, Note(Search(EST_RE, m.txt)),
                    Note(Search(DurPattern(m.st), m.txt)))

\* the body of the loop of lines 63-81 for one line of the file: the record it
\* appends (actual is dur of a DONE record, spent of a TODO record), "skip"
\* for a line that is no task, "ValueError" when a float() raises
ParseLine(line) == ParseTask(TASK_RE(Strip(line)))

DoneRec(r) == [text |-> r.text, est |-> r.est, dur |-> r.actual]
TodoRec(r) == [text |-> r.text, est |-> r.est, spent |-> r.actual]

\* lines 75 and 81: the lists after the record of one line
Collect(r, rest, done, todo) ==
    [lines |-> rest,
     done |-> IF r.kind = "DONE" THEN Append(done, DoneRec(r)) ELSE done,
     todo |-> IF r.kind = "TODO" THEN Append(todo, TodoRec(r)) ELSE todo,
     raised |-> r.kind = "ValueError"]

RECURSIVE ParseLoop(_)
\* the loop of lines 63-81 over the lines left, from the lists built so far
ParseLoop(st) ==
    IF st.raised THEN [err |-> "ValueError", done |-> <<>>, todo |-> <<>>]
    ELSE IF st.lines = <<>> THEN [err |-> "none", done |-> st.done, todo |-> st.todo]
    ELSE ParseLoop(Collect(ParseLine(Head(st.lines)), Tail(st.lines), st.done, st.todo))

ParseLines(lines) ==
    ParseLoop([lines |-> lines, done |-> <<>>, todo |-> <<>>, raised |-> FALSE])

\* parse_tasks_for_date on the file of one date
ParseFile(file) ==
    IF ~file.exists THEN [err |-> "none", done |-> <<>>, todo |-> <<>>]
    ELSE ParseLines(SplitLines(file.text))

JournalOf(date) == IF date \in DOMAIN journals THEN journals[date] ELSE NoFile

parse_tasks_for_date(date) == ParseFile(JournalOf(date))

(***************************************************************************)
(* find_latest_log, lines 85-95                                            *)
(***************************************************************************)
\* lines 93-95: what find_latest_log returns when the loop ends at delta
\* (0: the window is exhausted)
LookbackResult(day, parsed, delta) ==
    IF delta = 0
    THEN [err |-> "none", date |-> None, done |-> <<>>, todo |-> <<>>]
    ELSE IF parsed[delta].err # "none"
    THEN [err |-> parsed[delta].err, date |-> None, done |-> <<>>, todo |-> <<>>]
    ELSE [err |-> "none", date |-> <<day - delta>>,
          done |-> parsed[delta].done, todo |-> parsed[delta].todo]

FirstOf(ends) == IF ends = {} THEN 0 ELSE CHOOSE x \in ends : \A y \in ends : x <= y

\* the loop of lines 90-94 ends at the first delta of 1..max_lookback whose
\* journal makes the parser raise or yields a record
LookbackOver(day, parsed) ==
    LookbackResult(day, parsed,
        FirstOf({delta \in DOMAIN parsed :
                    \/ parsed[delta].err # "none"
                    \/ parsed[delta].done # <<>>
                    \/ parsed[delta].todo # <<>>}))

find_latest_log(day, window) ==
    LookbackOver(day, [delta \in 1..window |-> parse_tasks_for_date(day - delta)])

(***************************************************************************)
(* The phase calendar, lines 31-56                                         *)
(***************************************************************************)
\* dt.date(2025, m, d) as the ordinal of the day in 2025
Date2025(m, d) ==
    LET len == <<31, 28, 31, 30, 31, 30, 31, 31, 30, 31, 30, 31>>
        before[k \in 0..12] == IF k = 0 THEN 0 ELSE before[k - 1] + len[k]
    IN  before[m - 1] + d

PHASES == <<
    [code |-> <<"P", "0">>, start |-> Date2025(4, 22), end |-> Date2025(5, 15),
     desc |-> "2D CFD: Stokes5 & focusing wave, grid convergence (<3%)"],
    [code |-> <<"P", "1">>, start |-> Date2025(5, 16), end |-> Date2025(6, 10),
     desc |-> "2D NewWave focusing wave + draft"],
    [code |-> <<"P", "2">>, start |-> Date2025(6, 11), end |-> Date2025(7, 1),
     desc |-> "2D wind-wave coupling, reflection (<2%)"],
    [code |-> <<"P", "3">>, start |-> Date2025(7, 2), end |-> Date2025(7, 20),
     desc |-> "3D FOWT static blades x2 moorings"],
    [code |-> <<"P", "4">>, start |-> Date2025(7, 21), end |-> Date2025(8, 1),
     desc |-> "Thesis >=60 p + PPT 20 p"] >>

PhaseCodes == {PHASES[k].code : k \in 1..Len(PHASES)}

\* the loop of line 46 with start <= today < end
get_current_phase_exclusive_end(day) ==
    LET hit == {k \in 1..Len(PHASES) : PHASES[k].start <= day /\ day < PHASES[k].end}
    IN  IF hit = {} THEN PHASES[Len(PHASES)]
        ELSE PHASES[CHOOSE k \in hit : \A j \in hit : k <= j]

\* get_current_phase(today): the first phase of PHASES whose window holds the
\* day, the last phase of PHASES when none does
get_current_phase(day) ==
    LET hit == {k \in 1..Len(PHASES) : PHASES[k].start <= day /\ day <= PHASES[k].end}
    IN  IF hit = {} THEN PHASES[Len(PHASES)]
        ELSE PHASES[CHOOSE k \in hit : \A j \in hit : k <= j]

\* the dictionary lookup of line 51
PhaseOf(code) == CHOOSE p \in {PHASES[k] : k \in 1..Len(PHASES)} : p.code = code

\* get_time_progress without the clamp of line 55
get_time_progress_no_upper_clamp(code, day) ==
    LET p == PhaseOf(code)
    IN  IF day <= p.start THEN <<0, 1>>
        ELSE <<day - p.start, p.end - p.start>>

\* get_time_progress(code) when dt.date.today() is day
get_time_progress(code, day) ==
    LET p == PhaseOf(code)
    IN  IF day <= p.start THEN <<0, 1>>
        ELSE IF day >= p.end THEN <<1, 1>>
        ELSE <<day - p.start, p.end - p.start>>

\* comparison of ratios with positive denominators
RatEq(a, b) == a[1] * b[2] = b[1] * a[2]
RatLess(a, b) == a[1] * b[2] < b[1] * a[2]
RatLeq(a, b) == a[1] * b[2] <= b[1] * a[2]

(***************************************************************************)
(* The metrics of the main flow, lines 218-221                             *)
(***************************************************************************)
RECURSIVE SumOf(_, _)
\* sum(x[f] for x in recs), f one of "est", "dur", "spent"
SumOf(recs, f) == IF recs = <<>> THEN 0 ELSE Head(recs)[f] + SumOf(Tail(recs), f)

\* a / b of Python: the ratio, and whether ZeroDivisionError is raised
Div(a, b) == [raised |-> b = 0, ratio |-> <<a, b>>]

Quotient(r) == [raised |-> FALSE, ratio |-> r]

\* line 220 without its guard
efficiency_unguarded(total_spent, total_est) == Div(total_spent, total_est)

\* line 220
efficiency_of(total_spent, total_est) ==
    IF total_est # 0 THEN Div(total_spent, total_est) ELSE Quotient(<<1, 1>>)

\* line 221
task_rate_of(done, todo) ==
    IF done # <<>> \/ todo # <<>>
    THEN Div(Len(done), Len(done) + Len(todo))
    ELSE Quotient(<<0, 1>>)

NoMetrics ==
    [err |-> "unset", total_est |-> 0, total_spent |-> 0,
     efficiency |-> <<0, 1>>, task_rate |-> <<0, 1>>]

\* lines 218-221 on the records in hand
ComputeMetrics(done, todo) ==
    LET total_est   == SumOf(done, "est") + SumOf(todo, "est")
        total_spent == SumOf(done, "dur") + SumOf(todo, "spent")
        efficiency  == efficiency_of(total_spent, total_est)
        task_rate   == task_rate_of(done, todo)
    IN  [err |-> IF efficiency.raised \/ task_rate.raised
                 THEN "ZeroDivisionError" ELSE "none",
         total_est |-> total_est, total_spent |-> total_spent,
         efficiency |-> efficiency.ratio, task_rate |-> task_rate.ratio]

(***************************************************************************)
(* append_to_logseq, lines 141-152                                         *)
(***************************************************************************)
DigitChar(k) == <<"0", "1", "2", "3", "4", "5", "6", "7", "8", "9">>[k + 1]

RECURSIVE Decimal(_)
\* the decimal digits of n >= 0
Decimal(n) == IF n < 10 THEN <<DigitChar(n)>> ELSE Decimal(n \div 10) \o <<DigitChar(n % 10)>>

\* a ratio rounded to the nearest integer, a tie to the even one
RoundHalfEven(num, den) ==
    LET q == num \div den
        r == num % den
    IN  IF 2 * r < den THEN q
        ELSE IF 2 * r > den THEN q + 1
        ELSE IF q % 2 = 0 THEN q ELSE q + 1

\* f"{r:.0%}"
FormatPercent(r) == Decimal(RoundHalfEven(100 * r[1], r[2])) \o <<"%">>

\* f"{v:.1f}" of hours held in tenths
FormatHours(v) == Decimal(v \div 10) \o <<".">> \o <<DigitChar(v % 10)>>

\* the titles of the two sections a run appends, lines 146 and 201
PlanTitle == <<"#", "#", " ", "G", "P", "T", " ", "<ren>", "<wu>">>
ReviewTitle == <<"#", "#", " ", "G", "P", "T", " ", "<hui>", "<gu>", "<fan>", "<kui>">>

\* the header of lines 146-150
PlanHeader(ts, rate_task, rate_time, total_est, total_spent, code) ==
    <<"\n">> \o PlanTitle \o <<" ", "<middot>", " ">> \o ts \o <<"\n">>
    \o <<"-", " ", "<jie>", "<duan>", "<colon>">> \o code \o <<"\n">>
    \o <<"-", " ", "<shi>", "<jian>", "<jin>", "<du>", "<colon>">>
        \o FormatPercent(rate_time) \o <<"\n">>
    \o <<"-", " ", "<zuo>", "<ri>", "<wan>", "<cheng>", "<lv>", "<colon>">>
        \o FormatPercent(rate_task) \o <<"\n">>
    \o <<"-", " ", "<zuo>", "<ri>", "<yu>", "<ji>", "/", "<shi2>", "<ji2>", "<colon>">>
        \o FormatHours(total_est) \o <<"h", " ", "/", " ">>
        \o FormatHours(total_spent) \o <<"h", "\n">>

BulletPrefix == <<"-", " ">> \o sTODO \o <<" ">>

\* line 151: one bullet per line of str.splitlines(), joined by line breaks
PlanBullets(text) ==
    LET ls == SplitLines(text)
    IN  Join(<<"\n">>, [k \in 1..Len(ls) |-> BulletPrefix \o Strip(ls[k])])

\* the text append_to_logseq writes at the end of today's journal
PlanSection(text, ts, rate_task, rate_time, total_est, total_spent, code) ==
    PlanHeader(ts, rate_task, rate_time, total_est, total_spent, code)
        \o PlanBullets(text) \o <<"\n">>

\* the text append_review_to_logseq writes, lines 200-203
ReviewSection(review, ts) ==
    <<"\n">> \o ReviewTitle \o <<" ", "<middot>", " ">> \o ts \o <<"\n">>
        \o review \o <<"\n">>

\* a file opened in mode "a" and written to: created when missing
AppendTo(file, text) == File(file.text \o text)

(***************************************************************************)
(* States and operations                                                   *)
(***************************************************************************)
NoJournals == [d \in {} |-> NoFile]

\* the value every variable has before the operation that sets it has run
Fresh ==
    /\ pc = "start"
    /\ err = "none"
    /\ yest_date = None
    /\ done_y = <<>>
    /\ todo_y = <<>>
    /\ phase_code = <<>>
    /\ phase_desc = ""
    /\ time_rate = <<0, 1>>
    /\ metrics = NoMetrics

\* the day of PHASES the runs of the parser and of the writer happen on
RunDay == Date2025(6, 1)

(***************************************************************************)
(* The phase calendar on every day around the plan                         *)
(***************************************************************************)
DaysAround == 10

InitPhase ==
    /\ Fresh
    /\ today \in (PHASES[1].start - DaysAround)..(PHASES[Len(PHASES)].end + DaysAround)
    /\ max_lookback = 0
    /\ journals = NoJournals
    /\ today_text = <<>>
    /\ clock = <<>>

\* line 222
GetCurrentPhase ==
    /\ pc = "start"
    /\ LET p == get_current_phase(today)
       IN  /\ phase_code' = p.code
           /\ phase_desc' = p.desc
    /\ pc' = "phase"
    /\ UNCHANGED <<err, today, max_lookback, journals, yest_date, done_y, todo_y,
                   time_rate, metrics, today_text, clock>>

\* line 223: the progress of the phase line 222 found
GetTimeProgress ==
    /\ pc = "phase"
    /\ time_rate' = get_time_progress(phase_code, today)
    /\ pc' = "progress"
    /\ UNCHANGED <<err, today, max_lookback, journals, yest_date, done_y, todo_y,
                   phase_code, phase_desc, metrics, today_text, clock>>

\* get_time_progress called with the code of any phase of PHASES
CallGetTimeProgress(code) ==
    /\ pc = "start"
    /\ phase_code' = code
    /\ phase_desc' = PhaseOf(code).desc
    /\ time_rate' = get_time_progress(code, today)
    /\ pc' = "called"
    /\ UNCHANGED <<err, today, max_lookback, journals, yest_date, done_y, todo_y,
                   metrics, today_text, clock>>

NextPhase ==
    \/ GetCurrentPhase
    \/ GetTimeProgress
    \/ \E code \in PhaseCodes : CallGetTimeProgress(code)

SpecPhase == InitPhase /\ [][NextPhase]_vars

\* C4: get_current_phase(today) is always a phase of PHASES: the phase whose
\* inclusive window start <= today <= end holds today (so a phase's end date
\* selects that phase, not the next), and the last phase, P4, when today is
\* before the first start or after the last end.
C4_PhaseOfToday ==
    pc = "phase" =>
        /\ \E k \in 1..Len(PHASES) :
              phase_code = PHASES[k].code /\ phase_desc = PHASES[k].desc
        /\ \A k \in 1..Len(PHASES) :
              (PHASES[k].start <= today /\ today <= PHASES[k].end)
                  => phase_code = PHASES[k].code
        /\ (today < PHASES[1].start \/ today > PHASES[Len(PHASES)].end)
              => phase_code = <<"P", "4">>

\* today is the end date of P1 and P1, not P2, is selected
C4_Witness ==
    /\ pc = "phase"
    /\ today = Date2025(6, 10)
    /\ phase_code = <<"P", "1">>

\* C5: get_time_progress is 0.0 when today <= start, 1.0 when today >= end,
\* and otherwise (today - start) days over (end - start) days, strictly
\* between 0 and 1; so it is within [0,1], and 0.5 at the midpoint of a window.
C5_TimeProgress ==
    pc \in {"progress", "called"} =>
        LET p == PhaseOf(phase_code)
        IN  /\ today <= p.start => time_rate = <<0, 1>>
            /\ today >= p.end => time_rate = <<1, 1>>
            /\ (p.start < today /\ today < p.end) =>
                  /\ time_rate = <<today - p.start, p.end - p.start>>
                  /\ RatLess(<<0, 1>>, time_rate)
                  /\ RatLess(time_rate, <<1, 1>>)
            /\ RatLeq(<<0, 1>>, time_rate) /\ RatLeq(time_rate, <<1, 1>>)
            /\ 2 * (today - p.start) = p.end - p.start => RatEq(time_rate, <<1, 2>>)

\* the tenth day of the twenty days of P2: half of the window
C5_Witness ==
    /\ pc = "called"
    /\ phase_code = <<"P", "2">>
    /\ today = Date2025(6, 21)
    /\ RatEq(time_rate, <<1, 2>>)

(***************************************************************************)
(* Journals                                                                *)
(***************************************************************************)
\* what a journal line starts with: a task marker, a plain bullet, a heading,
\* a task marker with nothing behind it
LineStarts ==
    { <<"-", " ">> \o sTODO \o <<" ">>,
      <<"-", " ">> \o sDONE \o <<" ", " ">>,
      <<" ", "-", " ">> \o sDONE \o <<"\t">>,
      <<"-", " ">>,
      <<"#", " ">> }

\* the estimate a line carries: none, well formed, or with a number that is
\* not a decimal (two points, a lone point) or not a number at all
EstNotes ==
    { <<>>,
      <<" ", "(", "<yu>", "<ji>", " ", "3", "h", ")">>,
      <<" ", "(", "<yu>", "<ji>", "1", ".", "5", "h", ")">>,
      <<" ", "(", "<yu>", "<ji>", " ", "1", ".", "2", ".", "3", "h", ")">>,
      <<" ", "(", "<yu>", "<ji>", " ", ".", "h", ")">>,
      <<" ", "(", "<yu>", "<ji>", " ", "a", "h", ")">> }

\* the duration or time spent a line carries
TimeNotes ==
    { <<>>,
      <<" ", "[", "<hao>", "<shi>", " ", "4", "h", "]">>,
      <<" ", "[", "<yi>", "<hao>", "<shi>", "0", ".", "5", "h", "]">>,
      <<" ", "[", "<hao>", "<shi>", " ", ".", ".", "h", "]">>,
      <<" ", "[", "<yi>", "<hao>", "<shi>", " ", "x", "h", "]">> }

JournalLines ==
    { a \o <<"x">> \o e \o t : a \in LineStarts, e \in EstNotes, t \in TimeNotes }
        \cup { <<>>, <<"-", " ">> \o sTODO, <<"-", " ">> \o sTODO \o <<" ">> }

\* the lines of the journals of more than one line
CoreLines ==
    { <<"-", " ">> \o sDONE \o <<" ", "a", " ", "(", "<yu>", "<ji>", " ", "3", "h", ")",
        " ", "[", "<hao>", "<shi>", " ", "4", "h", "]">>,
      <<"-", " ">> \o sDONE \o <<" ", "b", " ", "(", "<yu>", "<ji>", " ", "3", "h", ")">>,
      <<"-", " ">> \o sDONE \o <<" ", "c">>,
      <<"-", " ">> \o sTODO \o <<" ", "d", " ", "(", "<yu>", "<ji>", " ", "2", "h", ")">>,
      <<"-", " ">> \o sTODO \o <<" ", "e">>,
      <<"#", " ", "n">> }

MaxLines == 3

RECURSIVE SeqsUpTo(_, _)
\* the sequences over S of length 1..n
SeqsUpTo(S, n) ==
    IF n = 0 THEN {}
    ELSE LET shorter == SeqsUpTo(S, n - 1)
         IN  {<<x>> : x \in S} \cup shorter \cup {Append(q, x) : q \in shorter, x \in S}

\* the text of a file of the given lines, each ended by a line break
TextOf(lines) == Concat([k \in 1..Len(lines) |-> lines[k] \o <<"\n">>])

JournalFiles ==
    {NoFile, File(<<>>)}
        \cup {File(l) : l \in JournalLines}
        \cup {File(TextOf(ls)) : ls \in SeqsUpTo(CoreLines, MaxLines)}

InitParse ==
    /\ Fresh
    /\ today = RunDay
    /\ max_lookback = 0
    /\ journals \in [{RunDay} -> JournalFiles]
    /\ today_text = <<>>
    /\ clock = <<>>

\* parse_tasks_for_date(date) on the journal of one date
ParseTasksForDate(date) ==
    /\ pc = "start"
    /\ LET r == parse_tasks_for_date(date)
       IN  /\ err' = r.err
           /\ done_y' = r.done
           /\ todo_y' = r.todo
    /\ pc' = "parsed"
    /\ UNCHANGED <<today, max_lookback, journals, yest_date, phase_code, phase_desc,
                   time_rate, metrics, today_text, clock>>

NextParse == ParseTasksForDate(today)

SpecParse == InitParse /\ [][NextParse]_vars

\* the text has an annotation of the pattern re: an opening, any whitespace, a
\* non-empty number of the class [0-9.] that satisfies Good, the closing
HasNoteWith(re, txt, Good(_)) ==
    \E i \in 1..Len(txt) : \E a \in i..(Len(txt) + 1) : \E b \in a..(Len(txt) + 1) :
        /\ HasPrefixAt(txt, i, re.open)
        /\ a >= i + Len(re.open)
        /\ \A k \in (i + Len(re.open))..(a - 1) : txt[k] \in Whitespace
        /\ b > a
        /\ \A k \in a..(b - 1) : txt[k] \in NumClass
        /\ Good(SubSeq(txt, a, b - 1))
        /\ HasPrefixAt(txt, b, re.close)

AnyNumber(g) == TRUE

\* a decimal number: digits with at most one point among them
IsDecimal(g) ==
    /\ \E k \in 1..Len(g) : g[k] \in Digit
    /\ \A j, k \in 1..Len(g) : (g[j] = "." /\ g[k] = ".") => j = k

HasNote(re, txt) == HasNoteWith(re, txt, AnyNumber)

HasDecimalNote(re, txt) == HasNoteWith(re, txt, IsDecimal)

IsDoneLine(l) == LET m == TASK_RE(Strip(l)) IN m.ok /\ m.st = sDONE
IsTodoLine(l) == LET m == TASK_RE(Strip(l)) IN m.ok /\ m.st = sTODO

\* the texts of the DONE lines and of the TODO lines of today's journal
DoneTexts ==
    LET ls == SelectSeq(SplitLines(JournalOf(today).text), IsDoneLine)
    IN  [k \in 1..Len(ls) |-> TASK_RE(Strip(ls[k])).txt]
TodoTexts ==
    LET ls == SelectSeq(SplitLines(JournalOf(today).text), IsTodoLine)
    IN  [k \in 1..Len(ls) |-> TASK_RE(Strip(ls[k])).txt]

\* C6: a record of a line with no estimate annotation has est 2.0; a DONE
\* record of a line with no duration annotation has dur equal to its own est;
\* a TODO record of a line with no spent annotation has spent 0.0.
C6_Defaults ==
    (pc = "parsed" /\ err = "none") =>
        /\ Len(done_y) = Len(DoneTexts)
        /\ Len(todo_y) = Len(TodoTexts)
        /\ \A k \in 1..Len(done_y) :
              /\ ~HasNote(EST_RE, DoneTexts[k]) => done_y[k].est = 20
              /\ ~HasNote(DUR_DONE, DoneTexts[k]) => done_y[k].dur = done_y[k].est
        /\ \A k \in 1..Len(todo_y) :
              /\ ~HasNote(EST_RE, TodoTexts[k]) => todo_y[k].est = 20
              /\ ~HasNote(DUR_TODO, TodoTexts[k]) => todo_y[k].spent = 0

\* a DONE line with an estimate of 3 h and no duration gave dur = est = 3.0,
\* and a TODO line with no annotation gave est 2.0 and spent 0.0
C6_Witness ==
    /\ pc = "parsed" /\ err = "none"
    /\ \E k \in 1..Len(done_y) :
          /\ HasNote(EST_RE, DoneTexts[k]) /\ ~HasNote(DUR_DONE, DoneTexts[k])
          /\ done_y[k].est = 30 /\ done_y[k].dur = 30
    /\ \E k \in 1..Len(todo_y) :
          /\ ~HasNote(EST_RE, TodoTexts[k]) /\ ~HasNote(DUR_TODO, TodoTexts[k])
          /\ todo_y[k].est = 20 /\ todo_y[k].spent = 0

\* C7: an annotation whose value is not a decimal number raises no error; it
\* is treated as absent, and the record gets the default of the field.
C7_MalformedIsAbsent ==
    pc = "parsed" =>
        /\ err = "none"
        /\ Len(done_y) = Len(DoneTexts)
        /\ Len(todo_y) = Len(TodoTexts)
        /\ \A k \in 1..Len(done_y) :
              /\ ~HasDecimalNote(EST_RE, DoneTexts[k]) => done_y[k].est = 20
              /\ ~HasDecimalNote(DUR_DONE, DoneTexts[k]) => done_y[k].dur = done_y[k].est
        /\ \A k \in 1..Len(todo_y) :
              /\ ~HasDecimalNote(EST_RE, TodoTexts[k]) => todo_y[k].est = 20
              /\ ~HasDecimalNote(DUR_TODO, TodoTexts[k]) => todo_y[k].spent = 0

(***************************************************************************)
(* The lookback over a window of journals                                  *)
(***************************************************************************)
MaxLookback == 3

\* a journal that is missing, one with no task, two with tasks, one whose
\* estimate has a lone point for a number
LookbackFiles ==
    { NoFile,
      File(<<"#", " ", "n", "\n">>),
      File(<<"-", " ">> \o sTODO \o <<" ", "e", "\n">>),
      File(<<"-", " ">> \o sDONE \o <<" ", "c", "\n", "-", " ">> \o sTODO \o <<" ", "e", "\n">>),
      File(<<"-", " ">> \o sTODO \o <<" ", "x", " ", "(", "<yu>", "<ji>", " ", ".", "h", ")", "\n">>) }

InitLookback ==
    /\ Fresh
    /\ today = RunDay
    /\ max_lookback \in 0..MaxLookback
    /\ journals \in [(RunDay - MaxLookback - 1)..RunDay -> LookbackFiles]
    /\ today_text = <<>>
    /\ clock = <<>>

\* find_latest_log(today, max_lookback)
FindLatestLog ==
    /\ pc = "start"
    /\ LET r == find_latest_log(today, max_lookback)
       IN  /\ err' = r.err
           /\ yest_date' = r.date
           /\ done_y' = r.done
           /\ todo_y' = r.todo
    /\ pc' = "looked"
    /\ UNCHANGED <<today, max_lookback, journals, phase_code, phase_desc,
                   time_rate, metrics, today_text, clock>>

NextLookback == FindLatestLog

SpecLookback == InitLookback /\ [][NextLookback]_vars

\* the journal of the day yields at least one record
Yields(d) ==
    LET r == parse_tasks_for_date(d)
    IN  r.err = "none" /\ (r.done # <<>> \/ r.todo # <<>>)

\* the result the lookback is to give: the latest day of [today-N, today-1]
\* that yields a record, with that day's records, or (None, [], [])
LatestLogIs(date, done, todo) ==
    LET hits == {d \in (today - max_lookback)..(today - 1) : Yields(d)}
    IN  IF hits = {}
        THEN date = None /\ done = <<>> /\ todo = <<>>
        ELSE LET d == CHOOSE x \in hits : \A y \in hits : y <= x
             IN  /\ date = <<d>>
                 /\ done = parse_tasks_for_date(d).done
                 /\ todo = parse_tasks_for_date(d).todo

\* C1: for every today, window and journal content find_latest_log returns
\* (d, done, todo), d the latest date of [today-N, today-1] whose journal
\* yields a record and done/todo that day's records, and (None, [], [])
\* exactly when no date of the range yields one; it never returns today nor a
\* date with no record.
C1_LatestLog ==
    pc = "looked" =>
        /\ err = "none"
        /\ LatestLogIs(yest_date, done_y, todo_y)
        /\ yest_date # <<today>>
        /\ yest_date # None => (done_y # <<>> \/ todo_y # <<>>)

\* what find_latest_log does give when no journal it reads makes float() raise
LookbackWhenNothingRaises ==
    (pc = "looked" /\ err = "none") =>
        /\ LatestLogIs(yest_date, done_y, todo_y)
        /\ yest_date # <<today>>
        /\ yest_date # None => (done_y # <<>> \/ todo_y # <<>>)

(***************************************************************************)
(* The main flow, lines 207-247                                            *)
(***************************************************************************)
MAX_LOOKBACK == 7

\* a journal with a DONE and a TODO task, and one whose estimate has a lone
\* point for a number
TaskFile ==
    File(<<"-", " ">> \o sDONE \o <<" ", "c", "\n", "-", " ">> \o sTODO \o <<" ", "e", "\n">>)
BadFile ==
    File(<<"-", " ">> \o sTODO \o <<" ", "x", " ", "(", "<yu>", "<ji>", " ", ".", "h", ")", "\n">>)

\* the journals of the days up to today: each missing or with tasks, and at
\* most one of them with the malformed estimate
MainJournals ==
    LET days  == (RunDay - MAX_LOOKBACK - 1)..RunDay
        plain == [days -> {NoFile, TaskFile}]
    IN  plain \cup {[j EXCEPT ![d] = BadFile] : j \in plain, d \in days}

Init ==
    /\ Fresh
    /\ today = RunDay
    /\ max_lookback = MAX_LOOKBACK
    /\ journals \in MainJournals
    /\ today_text = <<>>
    /\ clock = <<>>

\* lines 209-214: the lookback of 7 days; an exception of the parser ends the run
Main_FindLatestLog ==
    /\ pc = "start"
    /\ LET r == find_latest_log(today, MAX_LOOKBACK)
       IN  IF r.err # "none"
           THEN /\ pc' = "aborted"
                /\ err' = r.err
                /\ UNCHANGED <<yest_date, done_y, todo_y>>
           ELSE /\ pc' = "looked"
                /\ yest_date' = IF r.date = None THEN <<today - 1>> ELSE r.date
                /\ done_y' = r.done
                /\ todo_y' = r.todo
                /\ UNCHANGED err
    /\ UNCHANGED <<today, max_lookback, journals, phase_code, phase_desc,
                   time_rate, metrics, today_text, clock>>

\* line 217: parse_tasks_for_date(yest). No name yest is bound in the module
\* (line 210 binds yest_date), so evaluating the argument raises NameError and
\* the run ends here: lines 218-247 are never reached.
Main_ParseYesterday ==
    /\ pc = "looked"
    /\ pc' = "aborted"
    /\ err' = "NameError"
    /\ UNCHANGED <<today, max_lookback, journals, yest_date, done_y, todo_y,
                   phase_code, phase_desc, time_rate, metrics, today_text, clock>>

Next == Main_FindLatestLog \/ Main_ParseYesterday

Spec == Init /\ [][Next]_vars

\* the text holds the characters of part somewhere
Contains(text, part) == \E i \in 1..Len(text) : HasPrefixAt(text, i, part)

\* C2: the metrics handed to the review and plan requests are those of the
\* records find_latest_log(today, 7) returned; when no journal of the past 7
\* days has a record the run computes completionRate 0, efficiency 1.0,
\* totalEstimated 0 and totalSpent 0 and goes on to the review request, it
\* does not abort.
C2_MetricsFromLookback ==
    (find_latest_log(today, MAX_LOOKBACK).err = "none" /\ pc \notin {"start", "looked"}) =>
        /\ err = "none"
        /\ metrics = ComputeMetrics(find_latest_log(today, MAX_LOOKBACK).done,
                                    find_latest_log(today, MAX_LOOKBACK).todo)
        /\ find_latest_log(today, MAX_LOOKBACK).date = None =>
              /\ metrics.task_rate = <<0, 1>>
              /\ metrics.efficiency = <<1, 1>>
              /\ metrics.total_est = 0
              /\ metrics.total_spent = 0

MaxRecords == 2

\* hours, in tenths, of the records drawn
EstHours == {0, 20, 35}
ActualHours == {0, 15}

DoneRecords == {[text |-> <<"x">>, est |-> e, dur |-> a] : e \in EstHours, a \in ActualHours}
TodoRecords == {[text |-> <<"y">>, est |-> e, spent |-> a] : e \in EstHours, a \in ActualHours}

InitMetrics ==
    /\ Fresh
    /\ today = RunDay
    /\ max_lookback = 0
    /\ journals = NoJournals
    /\ today_text = <<>>
    /\ clock = <<>>

\* the records a lookback handed over
TakeRecords(done, todo) ==
    /\ pc = "start"
    /\ done_y' = done
    /\ todo_y' = todo
    /\ pc' = "looked"
    /\ UNCHANGED <<err, today, max_lookback, journals, yest_date, phase_code, phase_desc,
                   time_rate, metrics, today_text, clock>>

\* lines 218-221 on the records in hand
Compute ==
    /\ pc = "looked"
    /\ metrics' = ComputeMetrics(done_y, todo_y)
    /\ pc' = "computed"
    /\ UNCHANGED <<err, today, max_lookback, journals, yest_date, done_y, todo_y,
                   phase_code, phase_desc, time_rate, today_text, clock>>

NextMetrics ==
    \/ \E done \in {<<>>} \cup SeqsUpTo(DoneRecords, MaxRecords) :
       \E todo \in {<<>>} \cup SeqsUpTo(TodoRecords, MaxRecords) : TakeRecords(done, todo)
    \/ Compute

SpecMetrics == InitMetrics /\ [][NextMetrics]_vars

\* the sum of field f over the records, by the set of their positions
Total(recs, f) ==
    LET upto[n \in 0..Len(recs)] == IF n = 0 THEN 0 ELSE upto[n - 1] + recs[n][f]
    IN  upto[Len(recs)]

\* C8: totalEstimated is the sum of est over all records, totalSpent the sum
\* of dur over the done records plus the sum of spent over the todo records,
\* efficiency totalSpent / totalEstimated but 1.0 when totalEstimated is zero,
\* completionRate count(done) / (count(done) + count(todo)) but 0 when both
\* lists are empty; completionRate is within [0,1] and nothing divides by zero.
C8_Metrics ==
    pc = "computed" =>
        /\ metrics.err = "none"
        /\ metrics.total_est = Total(done_y, "est") + Total(todo_y, "est")
        /\ metrics.total_spent = Total(done_y, "dur") + Total(todo_y, "spent")
        /\ metrics.efficiency[2] # 0
        /\ metrics.task_rate[2] # 0
        /\ IF metrics.total_est = 0
           THEN metrics.efficiency = <<1, 1>>
           ELSE RatEq(metrics.efficiency, <<metrics.total_spent, metrics.total_est>>)
        /\ IF Len(done_y) + Len(todo_y) = 0
           THEN RatEq(metrics.task_rate, <<0, 1>>)
           ELSE RatEq(metrics.task_rate, <<Len(done_y), Len(done_y) + Len(todo_y)>>)
        /\ RatLeq(<<0, 1>>, metrics.task_rate) /\ RatLeq(metrics.task_rate, <<1, 1>>)

\* records whose estimates are all zero: the guard of line 220 gave 1.0
C8_Witness ==
    /\ pc = "computed"
    /\ Len(done_y) = 1 /\ Len(todo_y) = 2
    /\ metrics.total_est = 0
    /\ metrics.total_spent = 30
    /\ metrics.efficiency = <<1, 1>>
    /\ metrics.task_rate = <<1, 3>>

(***************************************************************************)
(* The writer on today's journal                                           *)
(***************************************************************************)
MaxPlanLines == 3

\* the lines of a response: tasks with and without an estimate, an empty and
\* a blank line, a task with a spent annotation, a task whose estimate is no
\* decimal number
PlanLines ==
    { <<"w", " ", "(", "<yu>", "<ji>", " ", "2", "h", ")">>,
      <<"v">>,
      <<>>,
      <<" ">>,
      <<"u", " ", "[", "<yi>", "<hao>", "<shi>", " ", "1", "h", "]">>,
      <<"t", " ", "(", "<yu>", "<ji>", " ", "1", ".", "2", ".", "3", "h", ")">> }

PlanTexts ==
    {<<>>} \cup {Join(<<"\n">>, ls) : ls \in SeqsUpTo(PlanLines, MaxPlanLines)}

ReviewTexts == { <<"r">>, <<"-", " ">> \o sDONE \o <<" ", "z">> }

\* today's journal before the run: missing, empty, with tasks, and with a
\* last line that has no line break
WriterFiles ==
    { NoFile, File(<<>>), TaskFile,
      File(<<"-", " ">> \o sTODO \o <<" ", "e">>) }

Clocks == { <<"0", "9", ":", "0", "5">>, <<"2", "3", ":", "5", "9">> }

InitWriter ==
    /\ pc = "start"
    /\ err = "none"
    /\ today = RunDay
    /\ max_lookback = MAX_LOOKBACK
    /\ journals \in [{RunDay} -> WriterFiles]
    /\ yest_date = None
    /\ \E yesterday \in {NoFile, TaskFile} :
          /\ done_y = ParseFile(yesterday).done
          /\ todo_y = ParseFile(yesterday).todo
          /\ metrics = ComputeMetrics(ParseFile(yesterday).done, ParseFile(yesterday).todo)
    /\ phase_code = get_current_phase(RunDay).code
    /\ phase_desc = get_current_phase(RunDay).desc
    /\ time_rate = get_time_progress(get_current_phase(RunDay).code, RunDay)
    /\ today_text \in PlanTexts
    /\ clock \in Clocks

\* append_review_to_logseq(review_text)
AppendReviewToLogseq(review) ==
    /\ pc = "start"
    /\ journals' = [journals EXCEPT ![today] = AppendTo(@, ReviewSection(review, clock))]
    /\ pc' = "reviewed"
    /\ UNCHANGED <<err, today, max_lookback, yest_date, done_y, todo_y, phase_code,
                   phase_desc, time_rate, metrics, today_text, clock>>

\* append_to_logseq(today_text, task_rate, time_rate, total_est, total_spent,
\* phase_code)
AppendToLogseq ==
    /\ pc \in {"start", "reviewed"}
    /\ journals' = [journals EXCEPT ![today] =
                       AppendTo(@, PlanSection(today_text, clock, metrics.task_rate,
                                               time_rate, metrics.total_est,
                                               metrics.total_spent, phase_code))]
    /\ pc' = "planned"
    /\ UNCHANGED <<err, today, max_lookback, yest_date, done_y, todo_y, phase_code,
                   phase_desc, time_rate, metrics, today_text, clock>>

NextWriter ==
    \/ \E review \in ReviewTexts : AppendReviewToLogseq(review)
    \/ AppendToLogseq

SpecWriter == InitWriter /\ [][NextWriter]_vars

IsNonblank(l) == Strip(l) # <<>>

\* a task-status line: it starts with "- TODO"
IsStatusLine(l) == HasPrefixAt(l, 1, <<"-", " ">> \o sTODO)

\* one "- TODO <line>" for each nonblank line of the text, in its order
BulletsOfNonblank(text) ==
    LET ls == SelectSeq(SplitLines(text), IsNonblank)
    IN  [k \in 1..Len(ls) |-> BulletPrefix \o Strip(ls[k])]

\* what a step of append_to_logseq added to the end of today's journal
Appended(before, after) == SubSeq(after.text, Len(before.text) + 1, Len(after.text))

\* the section is the header, then task-status lines that are exactly
\* the bullets of the nonblank lines of the plan
SectionIsHeaderAndBullets(section, header, text) ==
    /\ HasPrefixAt(section, 1, header)
    /\ SelectSeq(SplitLines(SubSeq(section, Len(header) + 1, Len(section))), IsStatusLine)
          = BulletsOfNonblank(text)

\* C9: the section append_to_logseq appends is the metrics header followed by
\* exactly one "- TODO <line>" task-status line for each nonblank line of the
\* plan text, in order; a blank or whitespace-only line gives no such line.
C9_OneBulletPerNonblankLine ==
    [][pc' = "planned" =>
          SectionIsHeaderAndBullets(
              Appended(JournalOf(today), JournalOf(today)'),
              PlanHeader(clock, metrics.task_rate, time_rate, metrics.total_est,
                         metrics.total_spent, phase_code),
              today_text)]_vars

\* the Todo record the round trip is to give for a plan line: the text with
\* its annotations stripped, its (<yu><ji> Xh) value or 2.0, nothing spent
PlanRecord(l) ==
    [text  |-> Strip(Sub(DUR_TODO, Sub(EST_RE, Strip(l)))),
     est   |-> IF Search(EST_RE, l).ok THEN PyFloat(Search(EST_RE, l).group).val ELSE 20,
     spent |-> 0]

\* the same record with the spent time the line itself is annotated with
PlanRecordSpentRead(l) ==
    [PlanRecord(l) EXCEPT
        !.spent = IF Search(DUR_TODO, l).ok THEN PyFloat(Search(DUR_TODO, l).group).val ELSE 0]

PlanRecords(text, Record(_)) ==
    LET ls == SelectSeq(SplitLines(text), IsNonblank)
    IN  [k \in 1..Len(ls) |-> Record(ls[k])]

\* the round trip of C10 to the letter: every record of the plan has spent 0.0
RoundTripNothingSpent ==
    [][(pc' = "planned" /\ ParseFile(JournalOf(today)).err = "none") =>
          /\ ParseFile(JournalOf(today)').err = "none"
          /\ ParseFile(JournalOf(today)').done = ParseFile(JournalOf(today)).done
          /\ ParseFile(JournalOf(today)').todo
                = ParseFile(JournalOf(today)).todo \o PlanRecords(today_text, PlanRecord)]_vars

\* C10: after append_to_logseq appended a plan section to a journal, the
\* parser returns the records the file held before, unchanged and in order,
\* followed by one Todo record per nonblank plan line (text with annotations
\* stripped, est its annotated value or 2.0, spent 0.0); the title and the
\* header lines give no record and nothing of the section is a Done record.
\* Stated here in the weaker form that also accepts, for a plan line that
\* carries a spent annotation, the spent time the parser reads from it.
C10_RoundTrip ==
    [][(pc' = "planned" /\ ParseFile(JournalOf(today)).err = "none") =>
          /\ ParseFile(JournalOf(today)').err = "none"
          /\ ParseFile(JournalOf(today)').done = ParseFile(JournalOf(today)).done
          /\ \/ ParseFile(JournalOf(today)').todo
                  = ParseFile(JournalOf(today)).todo \o PlanRecords(today_text, PlanRecord)
             \/ ParseFile(JournalOf(today)').todo
                  = ParseFile(JournalOf(today)).todo
                    \o PlanRecords(today_text, PlanRecordSpentRead)]_vars

\* the round trip when no estimate of the plan makes float() raise
RoundTripWhenNothingRaises ==
    [][(pc' = "planned" /\ ParseFile(JournalOf(today)).err = "none"
            /\ ParseFile(JournalOf(today)').err = "none") =>
          /\ ParseFile(JournalOf(today)').done = ParseFile(JournalOf(today)).done
          /\ ParseFile(JournalOf(today)').todo
                = ParseFile(JournalOf(today)).todo
                  \o PlanRecords(today_text, PlanRecordSpentRead)]_vars

\* the defaults of C7 on the journals that make no float() raise
DefaultsWhenNothingRaises ==
    (pc = "parsed" /\ err = "none") =>
        /\ \A k \in 1..Len(done_y) :
              /\ ~HasDecimalNote(EST_RE, DoneTexts[k]) => done_y[k].est = 20
              /\ ~HasDecimalNote(DUR_DONE, DoneTexts[k]) => done_y[k].dur = done_y[k].est
        /\ \A k \in 1..Len(todo_y) :
              /\ ~HasDecimalNote(EST_RE, TodoTexts[k]) => todo_y[k].est = 20
              /\ ~HasDecimalNote(DUR_TODO, TodoTexts[k]) => todo_y[k].spent = 0

====
